---- MODULE Spec2Model ----
(***************************************************************************)
(* SnowflakeDataComparer (src/compare.py): per-table comparison, the run   *)
(* over all configured tables, the exports and the process exit code.      *)
(*                                                                         *)
(* A Python dict is a record whose DOMAIN is the set of keys present; a    *)
(* list is a sequence; a string built with an f-string is the tuple of its *)
(* parts.  Wall-clock fields (timestamp, execution_time) are left out of   *)
(* the result records: no operation reads them back.                       *)
(***************************************************************************)
EXTENDS Integers, Sequences, FiniteSets, TLC

VARIABLES
    config,     \* self.config: the loaded YAML
    opts,       \* the command-line flags of main
    db,         \* what the two environments hold, per table name
    summary,    \* self.summary
    results,    \* self.results
    trace,      \* one entry per comparison that reached the data sources
    pc,         \* position of the caller
    exc,        \* the exception that left the last operation, or "None"
    exit_code,  \* the argument of sys.exit, -1 while the process runs
    calls,      \* number of comparison calls made on this comparer
    exports,    \* number of report/export calls made on this comparer
    out         \* the last artifact written by a report or export

vars == <<config, opts, db, summary, results, trace, pc, exc, exit_code,
          calls, exports, out>>

(***************************************************************************)
(* Bounds.                                                                 *)
(***************************************************************************)
MaxKey == 2         \* key values of a row are 1..MaxKey
MaxCap == 2         \* configured max_diffs values are -MaxCap..MaxCap or absent
MaxTables == 2      \* length of the configured table list
MaxOps == 3         \* method calls on one comparer used as a library

Keys == 1..MaxKey
Vals == {"x", "y"}
NoValue == "None"

(***************************************************************************)
(* Row sources and the diff of two of them (spec 4.1, 4.3).                *)
(***************************************************************************)
RECURSIVE RowsOf(_, _)
\* the rows of f, a function from a set of keys to values, in key order
RowsOf(f, k) ==
    IF k > MaxKey THEN <<>>
    ELSE (IF k \in DOMAIN f THEN <<[key |-> k, val |-> f[k]]>> ELSE <<>>)
         \o RowsOf(f, k + 1)

\* every key-ordered, duplicate-free row sequence over Keys and Vals
Sources == UNION {{RowsOf(f, 1) : f \in [S -> Vals]} : S \in SUBSET Keys}

Added(row) == [tag |-> "Added", key |-> row.key, old |-> NoValue, new |-> row.val]
Removed(row) == [tag |-> "Removed", key |-> row.key, old |-> row.val, new |-> NoValue]
Modified(l, r) == [tag |-> "Modified", key |-> l.key, old |-> l.val, new |-> r.val]

RECURSIVE MergeJoin(_, _, _, _)
MergeJoin(l, r, i, j) ==
    IF i > Len(l) /\ j > Len(r) THEN <<>>
    ELSE IF j > Len(r) \/ (i <= Len(l) /\ l[i].key < r[j].key)
         THEN <<Removed(l[i])>> \o MergeJoin(l, r, i + 1, j)
    ELSE IF i > Len(l) \/ r[j].key < l[i].key
         THEN <<Added(r[j])>> \o MergeJoin(l, r, i, j + 1)
    ELSE (IF l[i].val # r[j].val THEN <<Modified(l[i], r[j])>> ELSE <<>>)
         \o MergeJoin(l, r, i + 1, j + 1)

\* diff_tables(legacy_table, new_table, on=keys)
DiffTables(legacy, new) == MergeJoin(legacy, new, 1, 1)

\* str(d): the rendering of a diff starts with its sign
Sign(tag) == CASE tag = "Added" -> "+" [] tag = "Removed" -> "-" [] OTHER -> "~"
Str(d) == <<Sign(d.tag), d.key, d.old, d.new>>

(***************************************************************************)
(* Python helpers.                                                         *)
(***************************************************************************)
\* s.startswith(c) for a one-character c
StartsWith(s, c) == Len(s) > 0 /\ s[1] = c

Min(a, b) == IF a < b THEN a ELSE b
Max(a, b) == IF a > b THEN a ELSE b

SliceOffByOne(s, n) == SubSeq(s, 1, Min(Len(s), n + 1))
\* s[:n]: a negative n counts from the end
Slice(s, n) ==
    IF n >= 0 THEN SubSeq(s, 1, Min(Len(s), n))
    ELSE SubSeq(s, 1, Max(Len(s) + n, 0))

(***************************************************************************)
(* compare_table                                                           *)
(***************************************************************************)
DefaultMaxDiffs == 1000

\* self.config.get('comparison', {}).get('max_diffs', 1000)
ConfigMaxDiffs(cfg) ==
    IF "comparison" \in DOMAIN cfg /\ "max_diffs" \in DOMAIN cfg.comparison
    THEN cfg.comparison.max_diffs
    ELSE DefaultMaxDiffs

AddedRowsNotRemoved(diffs) ==
    Cardinality({i \in DOMAIN diffs : ~StartsWith(Str(diffs[i]), "-")})
\* len([d for d in diffs if str(d).startswith('+')])
AddedRows(diffs) ==
    Cardinality({i \in DOMAIN diffs : StartsWith(Str(diffs[i]), "+")})

RemovedRowsNotAdded(diffs) ==
    Cardinality({i \in DOMAIN diffs : ~StartsWith(Str(diffs[i]), "+")})
\* len([d for d in diffs if str(d).startswith('-')])
RemovedRows(diffs) ==
    Cardinality({i \in DOMAIN diffs : StartsWith(Str(diffs[i]), "-")})

StatusOfAtMostOne(diffs) == IF Len(diffs) <= 1 THEN "PASS" ELSE "FAIL"
StatusOf(diffs) == IF Len(diffs) = 0 THEN "PASS" ELSE "FAIL"

SuccessResult(cfg, table_name, diffs) ==
    [table |-> table_name,
     status |-> StatusOf(diffs),
     total_diffs |-> Len(diffs),
     added_rows |-> AddedRows(diffs),
     removed_rows |-> RemovedRows(diffs),
     diffs |-> [i \in DOMAIN Slice(diffs, ConfigMaxDiffs(cfg)) |-> Str(diffs[i])],
     legacy_environment |-> cfg.legacy_snowflake.account,
     new_environment |-> cfg.new_snowflake.account]

\* the counter update after a completed comparison
CountResult(summ, result) ==
    IF result.status = "PASS"
    THEN [summ EXCEPT !.passed_tables = @ + 1]
    ELSE [summ EXCEPT !.failed_tables = @ + 1]

ErrorMsg(table_name, e) == <<"Error comparing ", table_name, ": ", e>>

RecordErrorAsFailed(summ, table_name, e) ==
    [summ EXCEPT !.errors = Append(@, ErrorMsg(table_name, e)),
                 !.failed_tables = @ + 1]
\* the except branch: self.summary["errors"].append(error_msg)
RecordError(summ, table_name, e) ==
    [summ EXCEPT !.errors = Append(@, ErrorMsg(table_name, e))]

ErrorResult(cfg, table_name, e) ==
    [table |-> table_name,
     status |-> "ERROR",
     error |-> e,
     legacy_environment |-> cfg.legacy_snowflake.account,
     new_environment |-> cfg.new_snowflake.account]

\* what connect_to_table and diff_tables can do for one table
Outcomes == {"ok", "connect_error", "diff_error"}

\* compare_table(table_config) with summary summ, the data sources answering
\* with outcome: the exception that leaves it, the summary and the result
CompareTable(summ, cfg, table_config, outcome, data) ==
    IF ~("name" \in DOMAIN table_config /\ "keys" \in DOMAIN table_config)
    THEN [exc |-> "KeyError", summary |-> summ]
    ELSE IF outcome # "ok"
    THEN [exc |-> "None",
          summary |-> RecordError(summ, table_config.name, outcome),
          result |-> ErrorResult(cfg, table_config.name, outcome)]
    ELSE LET diffs == DiffTables(data[table_config.name].legacy,
                                 data[table_config.name].new)
             result == SuccessResult(cfg, table_config.name, diffs)
         IN [exc |-> "None",
             summary |-> CountResult(summ, result),
             result |-> result]

(***************************************************************************)
(* Configurations and initial state of a comparer.                         *)
(***************************************************************************)
EmptySummary ==
    [total_tables |-> 0, passed_tables |-> 0, failed_tables |-> 0, errors |-> <<>>]

TableA == [name |-> "a", keys |-> <<"id">>]
TableB == [name |-> "b", keys |-> <<"id">>]
NoName == [keys |-> <<"id">>]
NoKeys == [name |-> "c"]

Config(tables, cmp) ==
    [tables |-> tables,
     comparison |-> cmp,
     legacy_snowflake |-> [account |-> "legacy_acct"],
     new_snowflake |-> [account |-> "new_acct"]]

\* the 'comparison' section: empty, or with max_diffs set
Comparisons == {<<>>} \cup {[max_diffs |-> n] : n \in (0 - MaxCap)..MaxCap}

NewComparer ==
    /\ summary = EmptySummary
    /\ results = <<>>
    /\ trace = <<>>
    /\ pc = "start"
    /\ exc = "None"
    /\ exit_code = -1
    /\ calls = 0
    /\ exports = 0
    /\ out = <<>>

(***************************************************************************)
(* compare_all_tables                                                      *)
(***************************************************************************)
RECURSIVE RunTablesStopOnError(_, _, _, _, _)
RunTablesStopOnError(st, cfg, envs, data, i) ==
    IF i > Len(cfg.tables) THEN st
    ELSE LET r == CompareTable(st.summary, cfg, cfg.tables[i], envs[i], data)
         IN IF r.exc # "None" THEN [st EXCEPT !.exc = r.exc]
            ELSE IF r.result.status = "ERROR"
            THEN [st EXCEPT !.summary = r.summary,
                            !.results = Append(@, r.result)]
            ELSE RunTablesStopOnError(
                     [st EXCEPT !.summary = r.summary,
                                !.results = Append(@, r.result)],
                     cfg, envs, data, i + 1)

RECURSIVE RunTables(_, _, _, _, _)
\* the loop over self.config['tables'], from the i-th table on; an exception
\* that leaves compare_table ends the loop with what was appended so far
RunTables(st, cfg, envs, data, i) ==
    IF i > Len(cfg.tables) THEN st
    ELSE LET r == CompareTable(st.summary, cfg, cfg.tables[i], envs[i], data)
         IN IF r.exc # "None" THEN [st EXCEPT !.exc = r.exc]
            ELSE RunTables([st EXCEPT !.summary = r.summary,
                                      !.results = Append(@, r.result)],
                           cfg, envs, data, i + 1)

CompareAllTables(summ, res, cfg, envs, data) ==
    RunTables([exc |-> "None",
               summary |-> [summ EXCEPT !.total_tables = Len(cfg.tables)],
               results |-> res],
              cfg, envs, data, 1)

\* the log entries of the n comparisons of one call that reached the sources
Reached(cfg, envs, n) ==
    [i \in 1..n |-> [table |-> cfg.tables[i].name, outcome |-> envs[i]]]

(***************************************************************************)
(* generate_summary_report, export_results, export_to_snowflake            *)
(***************************************************************************)
\* f"{passed/total*100:.1f}%": the rate in tenths of a percent, or "0%"
SuccessRate(summ) ==
    IF summ.total_tables > 0
    THEN <<(2000 * summ.passed_tables + summ.total_tables)
             \div (2 * summ.total_tables), "%">>
    ELSE <<"0%">>

\* result.get(k, default)
Get(result, k, default) == IF k \in DOMAIN result THEN result[k] ELSE default

ReportRow(result) ==
    IF result.status = "ERROR"
    THEN <<result.table, result.status, "N/A", "N/A", "N/A",
           <<Get(result, "error", "Unknown error"), "...">> >>
    ELSE <<result.table, result.status, Get(result, "total_diffs", 0),
           Get(result, "added_rows", 0), Get(result, "removed_rows", 0),
           "execution_time">>

GenerateSummaryReport(summ, res) ==
    [summary_data |-> <<summ.total_tables, summ.passed_tables,
                        summ.failed_tables, SuccessRate(summ)>>,
     table_data |-> [i \in DOMAIN res |-> ReportRow(res[i])],
     errors |-> summ.errors]

CsvRow(result) ==
    <<Get(result, "table", ""), Get(result, "status", ""),
      Get(result, "total_diffs", ""), Get(result, "added_rows", ""),
      Get(result, "removed_rows", "")>>

\* the files export_results writes
ExportedFiles(summ, res, summary_only, export_csv, export_json) ==
    [summary |-> GenerateSummaryReport(summ, res),
     json |-> IF ~summary_only /\ export_json
              THEN <<[summary |-> summ, results |-> res]>> ELSE <<>>,
     csv |-> IF ~summary_only /\ export_csv /\ res # <<>>
             THEN <<[i \in DOMAIN res |-> CsvRow(res[i])]>> ELSE <<>>]

ValidationRow(result) ==
    [TABLE_NAME |-> result.table,
     COMPARISON_STATUS |-> result.status,
     TOTAL_DIFFS |-> Get(result, "total_diffs", 0),
     ADDED_ROWS |-> Get(result, "added_rows", 0),
     REMOVED_ROWS |-> Get(result, "removed_rows", 0),
     ERROR_MESSAGE |-> Get(result, "error", NoValue)]

\* what the Snowflake connection and write_pandas can do
SnowflakeOutcomes == {"ok", "not_success", "exception"}

SnowflakeErrorMsg(e) == <<"Error exporting to Snowflake: ", e>>

ExportToSnowflakeResetsCounters(summ, outcome) ==
    IF outcome = "exception"
    THEN [summ EXCEPT !.errors = Append(@, SnowflakeErrorMsg(outcome)),
                      !.failed_tables = 0]
    ELSE summ
\* the summary after export_to_snowflake
ExportToSnowflake(summ, outcome) ==
    IF outcome = "exception"
    THEN [summ EXCEPT !.errors = Append(@, SnowflakeErrorMsg(outcome))]
    ELSE summ

\* the rows written to the validation table
ValidationData(res, outcome) ==
    IF outcome = "ok" THEN [i \in DOMAIN res |-> ValidationRow(res[i])] ELSE <<>>

GetExitCodeIgnoresErrors(summ) == IF summ.failed_tables > 0 THEN 1 ELSE 0
GetExitCode(summ) ==
    IF summ.errors # <<>> \/ summ.failed_tables > 0 THEN 1 ELSE 0

(***************************************************************************)
(* Spec: one run of main.                                                  *)
(***************************************************************************)
TableKinds == {TableA, TableB, NoName, NoKeys}
TableLists == UNION {[1..n -> TableKinds] : n \in 0..MaxTables}

Same == [legacy |-> <<[key |-> 1, val |-> "x"]>>,
         new |-> <<[key |-> 1, val |-> "x"]>>]
Differ == [legacy |-> <<[key |-> 1, val |-> "x"]>>,
           new |-> <<[key |-> 1, val |-> "y"], [key |-> 2, val |-> "x"]>>]
RunDatabases == [{"a", "b"} -> {Same, Differ}]
RunComparisons == {<<>>, [max_diffs |-> 1]}

Init ==
    /\ \E tables \in TableLists, cmp \in RunComparisons :
           config = Config(tables, cmp)
    /\ opts \in [export_snowflake : BOOLEAN]
    /\ db \in RunDatabases
    /\ NewComparer

\* the except branch of main
Fatal(e) ==
    /\ exc' = e
    /\ exit_code' = 2
    /\ pc' = "done"

MainCompareAllTables ==
    /\ pc = "start"
    /\ \E envs \in [DOMAIN config.tables -> Outcomes] :
         LET r == CompareAllTables(summary, results, config, envs, db)
         IN /\ summary' = r.summary
            /\ results' = r.results
            /\ trace' = trace \o Reached(config, envs, Len(r.results) - Len(results))
            /\ IF r.exc = "None"
               THEN pc' = "compared" /\ UNCHANGED <<exc, exit_code>>
               ELSE Fatal(r.exc)
    /\ calls' = calls + 1
    /\ UNCHANGED <<config, opts, db, exports, out>>

MainExportResults ==
    /\ pc = "compared"
    /\ \E summary_only \in BOOLEAN, export_csv \in BOOLEAN,
          export_json \in BOOLEAN, io_ok \in BOOLEAN :
         IF io_ok
         THEN /\ out' = [op |-> "export_results",
                         data |-> ExportedFiles(summary, results, summary_only,
                                                export_csv, export_json)]
              /\ pc' = "exported"
              /\ UNCHANGED <<exc, exit_code>>
         ELSE /\ Fatal("IOError")
              /\ UNCHANGED out
    /\ exports' = exports + 1
    /\ UNCHANGED <<config, opts, db, summary, results, trace, calls>>

MainExportToSnowflake ==
    /\ pc = "exported"
    /\ opts.export_snowflake
    /\ \E outcome \in SnowflakeOutcomes :
         /\ summary' = ExportToSnowflake(summary, outcome)
         /\ out' = [op |-> "export_to_snowflake",
                    data |-> ValidationData(results, outcome)]
    /\ pc' = "reported"
    /\ exports' = exports + 1
    /\ UNCHANGED <<config, opts, db, results, trace, exc, exit_code, calls>>

MainExit ==
    /\ \/ pc = "reported"
       \/ pc = "exported" /\ ~opts.export_snowflake
    /\ exit_code' = GetExitCode(summary)
    /\ pc' = "done"
    /\ UNCHANGED <<config, opts, db, summary, results, trace, exc, calls,
                   exports, out>>

Next ==
    \/ MainCompareAllTables
    \/ MainExportResults
    \/ MainExportToSnowflake
    \/ MainExit

Spec == Init /\ [][Next]_vars

(***************************************************************************)
(* SpecAPI: the methods of one comparer called in any order.               *)
(***************************************************************************)
\* the table lists a, b, a, ... of every length up to MaxTables
ApiTableLists ==
    {[i \in 1..n |-> IF i % 2 = 1 THEN TableA ELSE TableB] : n \in 0..MaxTables}

InitAPI ==
    /\ \E tables \in ApiTableLists : config = Config(tables, <<>>)
    /\ opts = [export_snowflake |-> TRUE]
    /\ db = [t \in {"a", "b"} |-> IF t = "a" THEN Same ELSE Differ]
    /\ NewComparer

ApiCompareAllTables ==
    /\ calls + exports < MaxOps
    /\ \E envs \in [DOMAIN config.tables -> {"ok", "diff_error"}] :
         LET r == CompareAllTables(summary, results, config, envs, db)
         IN /\ summary' = r.summary
            /\ results' = r.results
            /\ trace' = trace \o Reached(config, envs, Len(r.results) - Len(results))
            /\ exc' = r.exc
    /\ calls' = calls + 1
    /\ pc' = "compared"
    /\ UNCHANGED <<config, opts, db, exit_code, exports, out>>

ApiGenerateSummaryReport ==
    /\ calls + exports < MaxOps
    /\ out' = [op |-> "generate_summary_report",
               data |-> GenerateSummaryReport(summary, results)]
    /\ exc' = "None"
    /\ exports' = exports + 1
    /\ pc' = "generated"
    /\ UNCHANGED <<config, opts, db, summary, results, trace, exit_code, calls>>

ApiExportResults ==
    /\ calls + exports < MaxOps
    /\ \E summary_only \in BOOLEAN, export_csv \in BOOLEAN,
          export_json \in BOOLEAN, io_ok \in BOOLEAN :
         IF io_ok
         THEN /\ out' = [op |-> "export_results",
                         data |-> ExportedFiles(summary, results, summary_only,
                                                export_csv, export_json)]
              /\ exc' = "None"
         ELSE /\ exc' = "IOError"
              /\ UNCHANGED out
    /\ exports' = exports + 1
    /\ pc' = "exported"
    /\ UNCHANGED <<config, opts, db, summary, results, trace, exit_code, calls>>

ApiExportToSnowflake ==
    /\ calls + exports < MaxOps
    /\ \E outcome \in SnowflakeOutcomes :
         /\ summary' = ExportToSnowflake(summary, outcome)
         /\ out' = [op |-> "export_to_snowflake",
                    data |-> ValidationData(results, outcome)]
    /\ exc' = "None"
    /\ exports' = exports + 1
    /\ pc' = "reported"
    /\ UNCHANGED <<config, opts, db, results, trace, exit_code, calls>>

NextAPI ==
    \/ ApiCompareAllTables
    \/ ApiGenerateSummaryReport
    \/ ApiExportResults
    \/ ApiExportToSnowflake

SpecAPI == InitAPI /\ [][NextAPI]_vars

(***************************************************************************)
(* SpecTable: compare_table called directly, once per table, on two tables *)
(* that hold the same two row sets with the sides exchanged.               *)
(***************************************************************************)
InitTable ==
    /\ \E cmp \in Comparisons : config = Config(<<TableA, TableB>>, cmp)
    /\ opts = [export_snowflake |-> FALSE]
    /\ \E l \in Sources, n \in Sources :
           db = [t \in {"a", "b"} |->
                   IF t = "a" THEN [legacy |-> l, new |-> n]
                   ELSE [legacy |-> n, new |-> l]]
    /\ NewComparer

TableCompare ==
    /\ \E i \in DOMAIN config.tables, outcome \in Outcomes :
         \* bound: each table is compared once
         /\ \A k \in DOMAIN trace : trace[k].table # config.tables[i].name
         /\ LET r == CompareTable(summary, config, config.tables[i], outcome, db)
            IN /\ summary' = r.summary
               /\ results' = Append(results, r.result)
               /\ trace' = Append(trace, [table |-> config.tables[i].name,
                                          outcome |-> outcome])
    /\ calls' = calls + 1
    /\ pc' = "compared"
    /\ UNCHANGED <<config, opts, db, exc, exit_code, exports, out>>

NextTable == TableCompare

SpecTable == InitTable /\ [][NextTable]_vars

(***************************************************************************)
(* Properties.                                                             *)
(***************************************************************************)
\* the i-th logged comparison and the i-th result belong together
Raised(i) == trace[i].outcome # "ok"
\* the full diff sequence of the i-th logged comparison
FullDiffs(i) == DiffTables(db[trace[i].table].legacy, db[trace[i].table].new)
Completed == {i \in DOMAIN results : ~Raised(i)}
Errored == {i \in DOMAIN results : Raised(i)}
NumTagged(ds, tag) == Cardinality({k \in DOMAIN ds : ds[k].tag = tag})
DiffFields == {"diffs", "total_diffs", "added_rows", "removed_rows"}
ValidTable(t) == "name" \in DOMAIN t /\ "keys" \in DOMAIN t

\* C1: every result of compare_table has status PASS exactly when the
\* comparison completed and found no diff, ERROR exactly when connecting or
\* diffing raised, and FAIL in every other case.
C1_StatusIff ==
    /\ Len(results) = Len(trace)
    /\ \A i \in DOMAIN results :
         /\ results[i].status = "PASS" <=> (~Raised(i) /\ Len(FullDiffs(i)) = 0)
         /\ results[i].status = "ERROR" <=> Raised(i)
         /\ results[i].status = "FAIL" <=> (~Raised(i) /\ Len(FullDiffs(i)) > 0)
         /\ ~Raised(i) => results[i].total_diffs = Len(FullDiffs(i))

C1_Witness ==
    /\ \E i \in DOMAIN results : results[i].status = "FAIL"
    /\ \E i \in DOMAIN results : results[i].status = "ERROR"

C1_WitnessPass ==
    \E i \in DOMAIN results : results[i].status = "PASS"

\* C2: once compare_all_tables has returned, passed_tables + failed_tables +
\* the number of ERROR results equals total_tables, after any number of
\* calls on the same comparer.
C2_CountsAddUp ==
    (calls >= 1 /\ exc = "None") =>
        summary.passed_tables + summary.failed_tables
          + Cardinality({i \in DOMAIN results : results[i].status = "ERROR"})
        = summary.total_tables

\* C3: for a valid table list of length N, compare_all_tables returns N
\* results in input order, ERROR exactly for the tables whose data source
\* raised; every table is compared and no exception leaves the call.
C3_FailureIsolation ==
    (pc # "start" /\ \A k \in DOMAIN config.tables : ValidTable(config.tables[k])) =>
        /\ exc # "KeyError"
        /\ Len(results) = Len(config.tables)
        /\ Len(trace) = Len(config.tables)
        /\ \A i \in DOMAIN results :
             /\ results[i].table = config.tables[i].name
             /\ trace[i].table = config.tables[i].name
             /\ results[i].status = "ERROR" <=> Raised(i)

C3_Witness ==
    /\ pc = "compared"
    /\ Len(config.tables) = 2
    /\ config.tables[1].name # config.tables[2].name
    /\ Len(results) = 2
    /\ results[1].status = "ERROR"
    /\ results[2].status = "FAIL"

\* C4 (as stated): total_diffs is the full count K and the stored diffs are
\* the first min(K, cap) renderings of the full sequence, for every
\* configured max_diffs value cap.
C4_CapEveryValue ==
    \A i \in Completed :
        LET full == FullDiffs(i)
            cap == ConfigMaxDiffs(config)
        IN /\ results[i].total_diffs = Len(full)
           /\ Len(results[i].diffs) = Min(Len(full), cap)
           /\ \A k \in DOMAIN results[i].diffs : results[i].diffs[k] = Str(full[k])

\* C4 (amended): total_diffs is the full count K and the stored diffs are a
\* prefix of the renderings of the full sequence, in order; the prefix has
\* min(K, cap) entries for a cap >= 0 and max(K + cap, 0) for a cap < 0.
C4_CapNonNegative ==
    \A i \in Completed :
        LET full == FullDiffs(i)
            cap == ConfigMaxDiffs(config)
        IN /\ results[i].total_diffs = Len(full)
           /\ Len(results[i].diffs) <= Len(full)
           /\ \A k \in DOMAIN results[i].diffs : results[i].diffs[k] = Str(full[k])
           /\ cap >= 0 => Len(results[i].diffs) = Min(Len(full), cap)
           /\ cap < 0 => Len(results[i].diffs) = Max(Len(full) + cap, 0)

C4_Witness ==
    \E i \in Completed :
        /\ ConfigMaxDiffs(config) = 1
        /\ results[i].total_diffs = 2
        /\ Len(results[i].diffs) = 1

C4_WitnessDefault ==
    \E i \in Completed :
        /\ ConfigMaxDiffs(config) = DefaultMaxDiffs
        /\ results[i].total_diffs = 2
        /\ Len(results[i].diffs) = 2

\* C5: the process exits with 0 exactly when no exception reached main, every
\* configured table has a PASS result and summary.errors is empty; every
\* other finished run exits with 1 or 2.
C5_ExitContract ==
    pc = "done" =>
        /\ exit_code \in {0, 1, 2}
        /\ exit_code = 0 <=>
             /\ exc = "None"
             /\ Len(results) = Len(config.tables)
             /\ \A i \in DOMAIN results : results[i].status = "PASS"
             /\ summary.errors = <<>>
        /\ exit_code = 2 <=> exc # "None"

C5_Witness ==
    /\ pc = "done"
    /\ exit_code = 0
    /\ Len(results) = 2

C5_WitnessExportError ==
    /\ pc = "done"
    /\ exit_code = 1
    /\ Len(results) = 2
    /\ \A i \in DOMAIN results : results[i].status = "PASS"
    /\ summary.errors # <<>>

\* C6: a comparison that raised gives an ERROR result that carries the error
\* and no diff field; summary.errors holds exactly one string per such
\* comparison, in order, and only completed comparisons are counted in
\* passed_tables and failed_tables.
C6_ErrorsVisible ==
    /\ \A i \in Errored :
         /\ results[i].status = "ERROR"
         /\ results[i].error = trace[i].outcome
         /\ DOMAIN results[i] \cap DiffFields = {}
         /\ summary.errors[Cardinality({j \in Errored : j <= i})]
              = <<"Error comparing ", trace[i].table, ": ", trace[i].outcome>>
    /\ Len(summary.errors) = Cardinality(Errored)
    /\ summary.passed_tables + summary.failed_tables = Cardinality(Completed)

C6_Witness ==
    /\ Len(results) = 2
    /\ Raised(1)
    /\ ~Raised(2)
    /\ Len(summary.errors) = 1

\* C7: if any entry of the configured table list is invalid, no table of the
\* run is compared: no data source is reached, no result is stored and no
\* table is counted or recorded as an error.
C7_InvalidSpecBeforeAnyCompare ==
    (\E k \in DOMAIN config.tables : ~ValidTable(config.tables[k])) =>
        /\ trace = <<>>
        /\ results = <<>>
        /\ summary.passed_tables = 0
        /\ summary.failed_tables = 0
        /\ summary.errors = <<>>

\* C8 (as stated): every report or export call leaves results and summary
\* unchanged.
C8_ExportsFreeze ==
    [][exports' # exports => (results' = results /\ summary' = summary)]_vars

\* C8 (amended): every report or export call leaves results, total_tables,
\* passed_tables and failed_tables unchanged; generate_summary_report and
\* export_results leave errors unchanged too, and export_to_snowflake leaves
\* errors unchanged or appends one "Error exporting to Snowflake" string.
C8_ExportsFrame ==
    [][exports' # exports =>
         /\ results' = results
         /\ summary'.total_tables = summary.total_tables
         /\ summary'.passed_tables = summary.passed_tables
         /\ summary'.failed_tables = summary.failed_tables
         /\ \/ summary'.errors = summary.errors
            \/ /\ pc' = "reported"
               /\ summary'.errors
                    = Append(summary.errors,
                             <<"Error exporting to Snowflake: ", "exception">>)]_vars

C8_Witness ==
    /\ pc = "reported"
    /\ exports = 2
    /\ Len(results) = 2
    /\ summary.failed_tables = 1
    /\ summary.errors = <<<<"Error exporting to Snowflake: ", "exception">>>>

\* C9: the comparison of a table and the comparison of the same two row sets
\* with the sides exchanged have the same total_diffs, and added_rows and
\* removed_rows exchanged.
C9_Symmetry ==
    \A i \in Completed, j \in Completed :
        (trace[i].table = "a" /\ trace[j].table = "b") =>
            /\ results[i].total_diffs = results[j].total_diffs
            /\ results[i].added_rows = results[j].removed_rows
            /\ results[i].removed_rows = results[j].added_rows
            /\ results[i].status = results[j].status

C9_Witness ==
    /\ Len(results) = 2
    /\ Completed = {1, 2}
    /\ trace[1].table = "a"
    /\ trace[2].table = "b"
    /\ results[1].total_diffs = 2
    /\ results[1].added_rows = 1
    /\ results[1].removed_rows = 0
    /\ results[2].removed_rows = 1

\* C10: added_rows and removed_rows count the '+' and the '-' diffs of the
\* full diff sequence, whatever max_diffs is, so their sum is at most
\* total_diffs; a diff that is neither is counted in total_diffs only.
C10_CountsBeforeTruncation ==
    \A i \in Completed :
        LET full == FullDiffs(i)
        IN /\ results[i].added_rows = NumTagged(full, "Added")
           /\ results[i].removed_rows = NumTagged(full, "Removed")
           /\ results[i].added_rows + results[i].removed_rows <= results[i].total_diffs
           /\ results[i].total_diffs - results[i].added_rows - results[i].removed_rows
                = NumTagged(full, "Modified")

C10_Witness ==
    \E i \in Completed :
        /\ Len(results[i].diffs) < results[i].total_diffs
        /\ results[i].added_rows = 1
        /\ results[i].removed_rows = 0
        /\ results[i].total_diffs = 2

====
